---- MODULE Spec2Model ----
(***************************************************************************)
(* A model of the grid coordinator (src/grid.go): operator registration,   *)
(* process control, the merge fan-in and the demultiplexing fan-out of an  *)
(* operator instance, and the command-log state machines it wires up.      *)
(***************************************************************************)
EXTENDS Integers, Sequences, FiniteSets, TLC

(***************************************************************************)
(* Bounds of the model.                                                    *)
(***************************************************************************)
MaxAdds == 2        \* Add calls in one run
MaxN == 2           \* largest parallelism passed to Add
MaxParts == 3       \* largest partition count a topic reports
MaxStops == 2       \* callers of Stop
MaxWaits == 3       \* callers of Wait
MaxEvents == 3      \* events an operator function emits
OutCap == 2         \* slots of a per-topic output channel (1024 in the code, scaled down)
MaxInputs == 2      \* input streams handed to merge
MaxInEvents == 2    \* events one input stream produces
MergedCap == 2      \* slots of the merged channel (1024 in the code, scaled down)
MaxPeers == 3       \* largest expected peer count npeers
MaxTerm == 2        \* largest election term
MaxProposals == 2   \* proposals made in one election round
MaxChanges == 2     \* leadership changes the manager sees
MaxNameLen == 1     \* longest string given as an actor's type, name or namespace
MaxIdCalls == 3     \* ID() calls on one ActorDef
MaxGridPeers == 5   \* largest npeers a grid is built with

(***************************************************************************)
(* Names.                                                                  *)
(***************************************************************************)
CmdTopic == "cmd"                       \* gridname + "-cmd"
UserTopics == {"topicA", "topicB"}
TopicLists ==                           \* topic lists passed to Add
    {<<>>, <<"topicA">>, <<"topicB">>, <<"topicA", "topicB">>, <<"topicB", "topicA">>}
Names == {"x", "y"}                     \* operator names
Funcs == {"f", "g"}                     \* operator functions
NoCall == [fname |-> "", n |-> 0, f |-> "", topics |-> <<>>, disc |-> <<>>, err |-> "nil"]
NoInst == [Fname |-> "", TopicSlices |-> [t \in {} |-> {}], order |-> <<>>]

VARIABLES
    decoded,    \* g.log.DecodedTopics(): the topics with a decoder
    encoded,    \* g.log.EncodedTopics(): the topics with an encoder
    ops,        \* g.ops: name -> [n, f, inputs]
    parts,      \* g.parts: topic -> sequence of partition ids
    call,       \* the arguments and the returned error of the latest Add
    nadds,      \* number of Add calls made
    wg,         \* g.wg: the WaitGroup counter
    exitClosed, \* whether g.exit has been closed
    stoppc,     \* each Stop caller: "idle", "closed" (past close), "done", "panic"
    waitpc,     \* each Wait caller: "idle", "waiting", "returned"
    crashed,    \* the process ended on an unrecovered panic
    instpc,     \* startinst: "idle", "setup" (in the loop over output topics), "running"
    fatal,      \* log.Fatalf was called: the process has exited
    emitted,    \* destination topic of each event the operator function has sent on out
    outq,       \* the events on the out channel, not yet received
    outClosed,  \* the operator function closed out
    outs,       \* outs: topic -> events in that topic's output channel
    written,    \* topic -> events the log writer has taken from that channel
    wpc,        \* demultiplexing workers, by the topic whose iteration started them
    wev,        \* the event a worker holds between receiving and sending
    plan,       \* merge: input -> number of events that input produces in all
    produced,   \* input -> number of events it has produced so far
    inq,        \* input -> events on that input channel, not yet received
    inClosed,   \* input -> whether the input channel has been closed
    mpc,        \* merge workers: "recv", "send", "mark", "done"
    mev,        \* the event a merge worker holds
    merged,     \* the events in the merged channel
    taken,      \* the events the operator function has received from merged
    meter,      \* count of the meter fname + "-msg-rate"
    npeers,     \* g.npeers: the expected number of peers
    joined,     \* the peers whose Start has run
    alive,      \* the peers that still run
    cmdlog,     \* the command topic's partition 0, in log order: the entries that
                \* some running voter has still to read
    offset,     \* peer -> index in cmdlog of the next entry its voter reads
    nprops,     \* number of proposals made in the current election round
    term,       \* peer -> the term of its latest proposal (0: none yet)
    role,       \* peer -> "follower", "candidate", "leader"
    votes,      \* peer -> confirmations of its own proposal observed in its term
    voted,      \* peer -> the highest term in which it confirmed a proposal
    leader,     \* peer -> the leadership announcement it has adopted
    wins,       \* every <<peer, term>> that reached a quorum
    mgrLeader,  \* the peer the manager knows as leader (0: none)
    mgrTerm,    \* number of leadership changes the manager has seen
    pending,    \* the Instance entries of the plan the leader has still to emit
    assigned,   \* <<Fname, Id>> -> the latest Instance entry emitted for it
    inst,       \* the Instance handed to the latest startinst
    ins,        \* startinst: the readers opened so far, <<topic, partitions>> each
    invoked,    \* number of calls of the operator function
    mergedClosed, \* whether the merged channel has been closed
    def,        \* an ActorDef: [id, Type, Name, namespace]
    verr,       \* what the latest ValidateActorDef returned
    idret,      \* what the latest ID() returned
    firstid,    \* what the first ID() returned
    ncalls,     \* number of ID() calls made
    quorumA,    \* a set of g.quorum peers
    quorumB     \* another set of g.quorum peers

regVars == <<decoded, encoded, ops, parts, call, nadds>>

lifeVars == <<wg, exitClosed, stoppc, waitpc, crashed>>

demuxVars == <<instpc, fatal, emitted, outq, outClosed, outs, written, wpc, wev,
               inst, ins, invoked>>

mergeVars == <<plan, produced, inq, inClosed, mpc, mev, merged, taken, meter, mergedClosed>>

voteVars == <<npeers, joined, alive, cmdlog, offset, nprops, term, role, votes, voted,
              leader, wins>>

planVars == <<mgrLeader, mgrTerm, pending, assigned>>

actorVars == <<def, verr, idret, firstid, ncalls>>

quorumVars == <<quorumA, quorumB>>

vars == <<decoded, encoded, ops, parts, call, nadds, wg, exitClosed, stoppc, waitpc,
          crashed, instpc, fatal, emitted, outq, outClosed, outs, written, wpc, wev,
          plan, produced, inq, inClosed, mpc, mev, merged, taken, meter,
          npeers, joined, alive, cmdlog, offset, nprops, term, role, votes, voted,
          leader, wins, mgrLeader, mgrTerm, pending, assigned, inst, ins, invoked,
          mergedClosed, def, verr, idret, firstid, ncalls, quorumA, quorumB>>

(***************************************************************************)
(* Helpers for Go maps and slices.                                         *)
(***************************************************************************)
EmptyMap == [k \in {} |-> 0]

Put(m, k, v) == [x \in DOMAIN m \cup {k} |-> IF x = k THEN v ELSE m[x]]

Range(s) == {s[i] : i \in DOMAIN s}

Min(S) == CHOOSE x \in S : \A y \in S : x <= y

Max(S) == CHOOSE x \in S : \A y \in S : x >= y

\* The slice of partition ids Partitions(topic) returns for a topic with k partitions.
PartSeq(k) == [i \in 1..k |-> i - 1]

(***************************************************************************)
(* ActorDef: NewActorDef, ID, regID and ValidateActorDef.  A string is a   *)
(* sequence of characters.                                                 *)
(***************************************************************************)
Chars == {"a", " "}

Strings == UNION {[1..k -> Chars] : k \in 0..MaxNameLen}

\* The name grammar: non-empty, no whitespace.
IsNameValid(str) == Len(str) > 0 /\ \A i \in DOMAIN str : str[i] # " "

\* fmt.Sprintf("%v-%v", a, b)
Sprintf(a, b) == a \o <<"-">> \o b

ZeroActorDef == [id |-> <<>>, Type |-> <<>>, Name |-> <<>>, namespace |-> <<>>]

ActorIdle ==
    /\ def = ZeroActorDef
    /\ verr = "none"
    /\ idret = <<>>
    /\ firstid = <<>>
    /\ ncalls = 0

ValidateNameFirst(d) ==
    IF ~IsNameValid(d.Name) THEN "ErrInvalidActorName"
    ELSE IF ~IsNameValid(d.Type) THEN "ErrInvalidActorType"
    ELSE IF ~IsNameValid(d.namespace) THEN "ErrInvalidActorNamespace"
    ELSE "nil"

ValidateActorDef(d) ==
    IF ~IsNameValid(d.Type) THEN "ErrInvalidActorType"
    ELSE IF ~IsNameValid(d.Name) THEN "ErrInvalidActorName"
    ELSE IF ~IsNameValid(d.namespace) THEN "ErrInvalidActorNamespace"
    ELSE "nil"

\* NewActorDef(name): a new value, of which nothing was asked yet.
NewActorDef(name) ==
    /\ def' = [id |-> <<>>, Type |-> name, Name |-> name, namespace |-> <<>>]
    /\ verr' = "none"
    /\ idret' = <<>>
    /\ firstid' = <<>>
    /\ ncalls' = 0
    /\ UNCHANGED <<regVars, lifeVars, demuxVars, mergeVars, voteVars, planVars, quorumVars>>

\* The caller sets the Type.
SetType(str) ==
    /\ def' = [def EXCEPT !.Type = str]
    /\ verr' = "none"
    /\ UNCHANGED <<idret, firstid, ncalls>>
    /\ UNCHANGED <<regVars, lifeVars, demuxVars, mergeVars, voteVars, planVars, quorumVars>>

\* The caller sets the Name.
SetName(str) ==
    /\ def' = [def EXCEPT !.Name = str]
    /\ verr' = "none"
    /\ UNCHANGED <<idret, firstid, ncalls>>
    /\ UNCHANGED <<regVars, lifeVars, demuxVars, mergeVars, voteVars, planVars, quorumVars>>

\* The owning layer sets the namespace.
SetNamespace(str) ==
    /\ def' = [def EXCEPT !.namespace = str]
    /\ verr' = "none"
    /\ UNCHANGED <<idret, firstid, ncalls>>
    /\ UNCHANGED <<regVars, lifeVars, demuxVars, mergeVars, voteVars, planVars, quorumVars>>

\* ValidateActorDef(def) is called.
Validate ==
    /\ verr' = ValidateActorDef(def)
    /\ UNCHANGED <<def, idret, firstid, ncalls>>
    /\ UNCHANGED <<regVars, lifeVars, demuxVars, mergeVars, voteVars, planVars, quorumVars>>

CacheEmptyAlways(d) == TRUE

\* a.id == ""
CacheEmpty(d) == d.id = <<>>

\* The ActorDef as one ID() call leaves it; its id is what the call returns.
AfterID(d) ==
    IF CacheEmpty(d) THEN [d EXCEPT !.id = Sprintf(d.namespace, d.Name)] ELSE d

\* def.ID() is called.
ID ==
    /\ ncalls < MaxIdCalls
    /\ def' = AfterID(def)
    /\ idret' = def'.id
    /\ firstid' = IF ncalls = 0 THEN def'.id ELSE firstid
    /\ ncalls' = ncalls + 1
    /\ UNCHANGED verr
    /\ UNCHANGED <<regVars, lifeVars, demuxVars, mergeVars, voteVars, planVars, quorumVars>>

\* def.regID() is called: it calls ID() for the bytes it hashes and again for
\* the string it formats.
RegID ==
    /\ ncalls + 2 <= MaxIdCalls
    /\ def' = AfterID(AfterID(def))
    /\ idret' = def'.id
    /\ firstid' = IF ncalls = 0 THEN AfterID(def).id ELSE firstid
    /\ ncalls' = ncalls + 2
    /\ UNCHANGED verr
    /\ UNCHANGED <<regVars, lifeVars, demuxVars, mergeVars, voteVars, planVars, quorumVars>>

ActorNext ==
    \/ \E name \in Strings : NewActorDef(name)
    \/ \E str \in Strings : SetType(str)
    \/ \E str \in Strings : SetName(str)
    \/ \E str \in Strings : SetNamespace(str)
    \/ Validate
    \/ ID
    \/ RegID

QuorumIdle ==
    /\ quorumA = {}
    /\ quorumB = {}

(***************************************************************************)
(* NewWithKafkaConfig: empty registries; the command topic gets its codec. *)
(***************************************************************************)
RegInit ==
    /\ decoded = {CmdTopic}
    /\ encoded = {CmdTopic}
    /\ ops = EmptyMap
    /\ parts = EmptyMap
    /\ call = NoCall
    /\ nadds = 0

AddDecoder(t) ==
    /\ t \notin decoded
    /\ decoded' = decoded \cup {t}
    /\ UNCHANGED <<encoded, ops, parts, call, nadds>>
    /\ UNCHANGED <<lifeVars, demuxVars, mergeVars, voteVars, planVars, actorVars, quorumVars>>

AddEncoder(t) ==
    /\ t \notin encoded
    /\ encoded' = encoded \cup {t}
    /\ UNCHANGED <<decoded, ops, parts, call, nadds>>
    /\ UNCHANGED <<lifeVars, demuxVars, mergeVars, voteVars, planVars, actorVars, quorumVars>>

(***************************************************************************)
(* Grid.Add.  disc[i] is what g.log.Partitions answers for topics[i]:      *)
(* an error, or the number n of partitions.                                *)
(***************************************************************************)
RegisteredNever(fname) == FALSE

Registered(fname) == fname \in DOMAIN ops

TooManyOffByOne(ps, n) == Len(ps) >= n

TooMany(ps, n) == Len(ps) > n

\* The loop over topics, from position i, with the inputs and the partition
\* table built so far.  Returns the error, the inputs and the partition table.
RECURSIVE AddLoop(_, _, _, _, _, _)
AddLoop(n, topics, disc, i, inputs, pt) ==
    IF i > Len(topics)
    THEN [err |-> "nil", inputs |-> inputs, parts |-> pt]
    ELSE IF topics[i] \notin decoded
    THEN [err |-> "nodecoder", inputs |-> inputs, parts |-> pt]
    ELSE IF disc[i].err
    THEN [err |-> "partitions", inputs |-> inputs \cup {topics[i]}, parts |-> pt]
    ELSE LET pt2 == Put(pt, topics[i], PartSeq(disc[i].n))
         IN  IF TooMany(pt2[topics[i]], n)
             THEN [err |-> "parallelism", inputs |-> inputs \cup {topics[i]}, parts |-> pt2]
             ELSE AddLoop(n, topics, disc, i + 1, inputs \cup {topics[i]}, pt2)

AddResult(fname, n, topics, disc) ==
    IF Registered(fname)
    THEN [err |-> "exists", inputs |-> {}, parts |-> parts]
    ELSE AddLoop(n, topics, disc, 1, {}, parts)

Add(fname, n, f, topics, disc) ==
    /\ nadds < MaxAdds
    /\ LET r == AddResult(fname, n, topics, disc)
       IN  /\ parts' = r.parts
           /\ ops' = IF r.err = "nil"
                     THEN Put(ops, fname, [n |-> n, f |-> f, inputs |-> r.inputs])
                     ELSE ops
           /\ call' = [fname |-> fname, n |-> n, f |-> f, topics |-> topics,
                       disc |-> disc, err |-> r.err]
    /\ nadds' = nadds + 1
    /\ UNCHANGED <<decoded, encoded>>
    /\ UNCHANGED <<lifeVars, demuxVars, mergeVars, voteVars, planVars, actorVars, quorumVars>>

DiscResults ==
    {[err |-> TRUE, n |-> 0]} \cup {[err |-> FALSE, n |-> k] : k \in 1..MaxParts}

AddCall ==
    \E fname \in Names, n \in 1..MaxN, f \in Funcs, topics \in TopicLists :
        \E disc \in [1..Len(topics) -> DiscResults] :
            Add(fname, n, f, topics, disc)

(***************************************************************************)
(* Process control: NewWithKafkaConfig (wg.Add(1), exit open), Wait, Stop. *)
(***************************************************************************)
Stoppers == 1..MaxStops

Waiters == 1..MaxWaits

LifeInit ==
    /\ wg = 1
    /\ exitClosed = FALSE
    /\ stoppc = [c \in Stoppers |-> "idle"]
    /\ waitpc = [w \in Waiters |-> "idle"]
    /\ crashed = FALSE

\* Wait() is entered: the caller is in g.wg.Wait().
WaitCall(w) ==
    /\ ~crashed
    /\ waitpc[w] = "idle"
    /\ waitpc' = [waitpc EXCEPT ![w] = "waiting"]
    /\ UNCHANGED <<wg, exitClosed, stoppc, crashed>>
    /\ UNCHANGED <<regVars, demuxVars, mergeVars, voteVars, planVars, actorVars, quorumVars>>

WaitMayReturn == wg = 0

\* g.wg.Wait() returns once the counter is zero.
WaitReturn(w) ==
    /\ ~crashed
    /\ waitpc[w] = "waiting"
    /\ WaitMayReturn
    /\ waitpc' = [waitpc EXCEPT ![w] = "returned"]
    /\ UNCHANGED <<wg, exitClosed, stoppc, crashed>>
    /\ UNCHANGED <<regVars, demuxVars, mergeVars, voteVars, planVars, actorVars, quorumVars>>

\* Stop(), first statement: close(g.exit).  Closing a closed channel panics;
\* nothing recovers the panic, so the process ends.
StopClose(c) ==
    /\ ~crashed
    /\ stoppc[c] = "idle"
    /\ IF exitClosed
       THEN /\ stoppc' = [stoppc EXCEPT ![c] = "panic"]
            /\ crashed' = TRUE
            /\ UNCHANGED exitClosed
       ELSE /\ stoppc' = [stoppc EXCEPT ![c] = "closed"]
            /\ exitClosed' = TRUE
            /\ UNCHANGED crashed
    /\ UNCHANGED <<wg, waitpc>>
    /\ UNCHANGED <<regVars, demuxVars, mergeVars, voteVars, planVars, actorVars, quorumVars>>

\* Stop(), second statement: g.wg.Done().
StopDone(c) ==
    /\ ~crashed
    /\ stoppc[c] = "closed"
    /\ wg' = wg - 1
    /\ stoppc' = [stoppc EXCEPT ![c] = "done"]
    /\ UNCHANGED <<exitClosed, waitpc, crashed>>
    /\ UNCHANGED <<regVars, demuxVars, mergeVars, voteVars, planVars, actorVars, quorumVars>>

LifeNext ==
    \/ \E w \in Waiters : WaitCall(w)
    \/ \E w \in Waiters : WaitReturn(w)
    \/ \E c \in Stoppers : StopClose(c)
    \/ \E c \in Stoppers : StopDone(c)

(***************************************************************************)
(* Grid.startinst: validation, then the operator function is invoked on    *)
(* the merged input and its out channel is demultiplexed.                  *)
(***************************************************************************)
AllTopics == {CmdTopic} \cup UserTopics

DemuxIdle ==
    /\ instpc = "idle"
    /\ fatal = FALSE
    /\ emitted = <<>>
    /\ outq = <<>>
    /\ outClosed = FALSE
    /\ outs = EmptyMap
    /\ written = EmptyMap
    /\ wpc = EmptyMap
    /\ wev = EmptyMap
    /\ inst = NoInst
    /\ ins = <<>>
    /\ invoked = 0

InstanceValidNameOnly(fname, topics) == fname \in DOMAIN ops

\* The checks of the instance against the registry, up to the call of f.
InstanceValid(fname, topics) ==
    /\ fname \in DOMAIN ops
    /\ \A t \in topics : t \in ops[fname].inputs

\* The orders in which Go may range over a map with the keys S.
Orders(S) == {o \in [1..Cardinality(S) -> S] : Range(o) = S}

\* ins as the loop over inst.TopicSlices builds it, the map yielding its
\* topics in this order: one reader per topic, up to the first topic that is
\* not an input of the operator.
Opened(fname, slices, order) ==
    LET bad == {i \in DOMAIN order : order[i] \notin ops[fname].inputs}
        k == IF bad = {} THEN Len(order) ELSE Min(bad) - 1
    IN  [i \in 1..k |-> <<order[i], slices[order[i]]>>]

\* startinst(inst), up to the call of the operator function on the merge of
\* the readers.
StartInst(fname, slices, order) ==
    /\ instpc = "idle"
    /\ ~fatal
    /\ order \in Orders(DOMAIN slices)
    /\ inst' = [Fname |-> fname, TopicSlices |-> slices, order |-> order]
    /\ IF InstanceValid(fname, DOMAIN slices)
       THEN /\ ins' = Opened(fname, slices, order)
            /\ invoked' = invoked + 1
            /\ instpc' = "setup"
            /\ UNCHANGED fatal
       ELSE /\ ins' = IF fname \in DOMAIN ops THEN Opened(fname, slices, order) ELSE <<>>
            /\ fatal' = TRUE
            /\ UNCHANGED <<instpc, invoked>>
    /\ UNCHANGED <<emitted, outq, outClosed, outs, written, wpc, wev>>
    /\ UNCHANGED <<regVars, lifeVars, mergeVars, voteVars, planVars, actorVars, quorumVars>>

\* One iteration of the loop over g.log.EncodedTopics(): the topic's channel
\* is made and handed to the log writer, and one more worker is started.
\* Go ranges over a map in no fixed order.
SetupTopic(t) ==
    /\ instpc = "setup"
    /\ ~fatal
    /\ t \in encoded \ DOMAIN outs
    /\ outs' = Put(outs, t, <<>>)
    /\ written' = Put(written, t, <<>>)
    /\ wpc' = Put(wpc, t, "recv")
    /\ wev' = Put(wev, t, 0)
    /\ UNCHANGED <<instpc, fatal, emitted, outq, outClosed>>
    /\ UNCHANGED <<inst, ins, invoked>>
    /\ UNCHANGED <<regVars, lifeVars, mergeVars, voteVars, planVars, actorVars, quorumVars>>

\* The loop is over: startinst returns.
SetupDone ==
    /\ instpc = "setup"
    /\ ~fatal
    /\ encoded \subseteq DOMAIN outs
    /\ instpc' = "running"
    /\ UNCHANGED <<fatal, emitted, outq, outClosed, outs, written, wpc, wev>>
    /\ UNCHANGED <<inst, ins, invoked>>
    /\ UNCHANGED <<regVars, lifeVars, mergeVars, voteVars, planVars, actorVars, quorumVars>>

\* The operator function, running since f was called, sends an event for topic t.
OpEmit(t) ==
    /\ instpc \in {"setup", "running"}
    /\ ~fatal
    /\ ~outClosed
    /\ Len(emitted) < MaxEvents
    /\ emitted' = Append(emitted, t)
    /\ outq' = Append(outq, Len(emitted) + 1)
    /\ UNCHANGED <<instpc, fatal, outClosed, outs, written, wpc, wev>>
    /\ UNCHANGED <<inst, ins, invoked>>
    /\ UNCHANGED <<regVars, lifeVars, mergeVars, voteVars, planVars, actorVars, quorumVars>>

OpClose ==
    /\ instpc \in {"setup", "running"}
    /\ ~fatal
    /\ ~outClosed
    /\ outClosed' = TRUE
    /\ UNCHANGED <<instpc, fatal, emitted, outq, outs, written, wpc, wev>>
    /\ UNCHANGED <<inst, ins, invoked>>
    /\ UNCHANGED <<regVars, lifeVars, mergeVars, voteVars, planVars, actorVars, quorumVars>>

\* outs[event.Topic()] as a worker reads it: the map as startinst has filled
\* it so far.  The workers read it while the loop still inserts into it, with
\* no synchronisation.
Lookup(t) == t \in DOMAIN outs

\* for event := range out: a worker receives the next event and looks its
\* topic up; an unknown topic is fatal.  A closed and drained out ends the worker.
WorkerRecv(w) ==
    /\ ~fatal
    /\ w \in DOMAIN wpc
    /\ wpc[w] = "recv"
    /\ IF outq # <<>>
       THEN /\ outq' = Tail(outq)
            /\ IF Lookup(emitted[Head(outq)])
               THEN /\ wpc' = [wpc EXCEPT ![w] = "send"]
                    /\ wev' = [wev EXCEPT ![w] = Head(outq)]
                    /\ UNCHANGED fatal
               ELSE /\ fatal' = TRUE
                    /\ UNCHANGED <<wpc, wev>>
       ELSE /\ outClosed
            /\ wpc' = [wpc EXCEPT ![w] = "done"]
            /\ UNCHANGED <<outq, wev, fatal>>
    /\ UNCHANGED <<instpc, emitted, outClosed, outs, written>>
    /\ UNCHANGED <<inst, ins, invoked>>
    /\ UNCHANGED <<regVars, lifeVars, mergeVars, voteVars, planVars, actorVars, quorumVars>>

\* topicout <- event: blocks while the topic's channel is full.
WorkerSend(w) ==
    /\ ~fatal
    /\ w \in DOMAIN wpc
    /\ wpc[w] = "send"
    /\ LET t == emitted[wev[w]]
       IN  /\ t \in DOMAIN outs
           /\ Len(outs[t]) < OutCap
           /\ outs' = [outs EXCEPT ![t] = Append(@, wev[w])]
    /\ wpc' = [wpc EXCEPT ![w] = "recv"]
    /\ wev' = [wev EXCEPT ![w] = 0]
    /\ UNCHANGED <<instpc, fatal, emitted, outq, outClosed, written>>
    /\ UNCHANGED <<inst, ins, invoked>>
    /\ UNCHANGED <<regVars, lifeVars, mergeVars, voteVars, planVars, actorVars, quorumVars>>

\* g.log.Write(topic, outs[topic]): the writer takes the next event.
WriterTake(t) ==
    /\ ~fatal
    /\ t \in DOMAIN outs
    /\ outs[t] # <<>>
    /\ written' = [written EXCEPT ![t] = Append(@, Head(outs[t]))]
    /\ outs' = [outs EXCEPT ![t] = Tail(@)]
    /\ UNCHANGED <<instpc, fatal, emitted, outq, outClosed, wpc, wev>>
    /\ UNCHANGED <<inst, ins, invoked>>
    /\ UNCHANGED <<regVars, lifeVars, mergeVars, voteVars, planVars, actorVars, quorumVars>>

\* Everything sent so far on topic t's output channel, in channel order.
Delivered(t) == IF t \in DOMAIN outs THEN written[t] \o outs[t] ELSE <<>>

(***************************************************************************)
(* Grid.merge: one worker per input stream copies that input's events to   *)
(* the merged channel and marks the meter after each.                      *)
(***************************************************************************)
Inputs == 1..MaxInputs

MergeIdle ==
    /\ plan = EmptyMap
    /\ produced = EmptyMap
    /\ inq = EmptyMap
    /\ inClosed = EmptyMap
    /\ mpc = EmptyMap
    /\ mev = EmptyMap
    /\ merged = <<>>
    /\ taken = <<>>
    /\ meter = 0
    /\ mergedClosed = FALSE

\* The state as merge(fname, ins) returns: a fresh meter, an empty merged
\* channel and one worker per input, for N inputs that will produce plan[i] events.
MergeInit ==
    /\ \E N \in 0..MaxInputs : plan \in [1..N -> 0..MaxInEvents]
    /\ produced = [i \in DOMAIN plan |-> 0]
    /\ inq = [i \in DOMAIN plan |-> <<>>]
    /\ inClosed = [i \in DOMAIN plan |-> FALSE]
    /\ mpc = [i \in DOMAIN plan |-> "recv"]
    /\ mev = [i \in DOMAIN plan |-> <<0, 0>>]
    /\ merged = <<>>
    /\ taken = <<>>
    /\ meter = 0
    /\ mergedClosed = FALSE

\* The reader behind input i delivers its next event.
InputProduce(i) ==
    /\ i \in DOMAIN plan
    /\ ~inClosed[i]
    /\ produced[i] < plan[i]
    /\ produced' = [produced EXCEPT ![i] = @ + 1]
    /\ inq' = [inq EXCEPT ![i] = Append(@, <<i, produced[i] + 1>>)]
    /\ UNCHANGED <<plan, inClosed, mpc, mev, merged, taken, meter>>
    /\ UNCHANGED mergedClosed
    /\ UNCHANGED <<regVars, lifeVars, demuxVars, voteVars, planVars, actorVars, quorumVars>>

\* The reader behind input i closes the channel.
InputClose(i) ==
    /\ i \in DOMAIN plan
    /\ ~inClosed[i]
    /\ produced[i] = plan[i]
    /\ inClosed' = [inClosed EXCEPT ![i] = TRUE]
    /\ UNCHANGED <<plan, produced, inq, mpc, mev, merged, taken, meter>>
    /\ UNCHANGED mergedClosed
    /\ UNCHANGED <<regVars, lifeVars, demuxVars, voteVars, planVars, actorVars, quorumVars>>

ClosesMergedWhenLast(last) == last

\* Whether a worker that ends closes the merged channel; last: every other
\* worker has ended.  The worker's function returns and closes nothing.
ClosesMerged(last) == FALSE

\* for m := range in: the worker receives the next event, or ends when the
\* input is closed and drained.
MergeRecv(i) ==
    /\ i \in DOMAIN mpc
    /\ mpc[i] = "recv"
    /\ IF inq[i] # <<>>
       THEN /\ mev' = [mev EXCEPT ![i] = Head(inq[i])]
            /\ inq' = [inq EXCEPT ![i] = Tail(@)]
            /\ mpc' = [mpc EXCEPT ![i] = "send"]
            /\ UNCHANGED mergedClosed
       ELSE /\ inClosed[i]
            /\ mpc' = [mpc EXCEPT ![i] = "done"]
            /\ mergedClosed' =
                  (mergedClosed \/ ClosesMerged(\A j \in DOMAIN mpc \ {i} : mpc[j] = "done"))
            /\ UNCHANGED <<mev, inq>>
    /\ UNCHANGED <<plan, produced, inClosed, merged, taken, meter>>
    /\ UNCHANGED <<regVars, lifeVars, demuxVars, voteVars, planVars, actorVars, quorumVars>>

HasRoomAlways(q) == TRUE

\* A send on the merged channel can proceed: make(chan Event, 1024).
HasRoom(q) == Len(q) < MergedCap

ChanSendFront(q, e) == <<e>> \o q

\* The channel after a send: first in, first out.
ChanSend(q, e) == Append(q, e)

\* merged <- m: blocks while the merged channel is full.
MergeSend(i) ==
    /\ i \in DOMAIN mpc
    /\ mpc[i] = "send"
    /\ HasRoom(merged)
    /\ merged' = ChanSend(merged, mev[i])
    /\ mpc' = [mpc EXCEPT ![i] = "mark"]
    /\ UNCHANGED <<plan, produced, inq, inClosed, mev, taken, meter>>
    /\ UNCHANGED mergedClosed
    /\ UNCHANGED <<regVars, lifeVars, demuxVars, voteVars, planVars, actorVars, quorumVars>>

MarkedTwice(count) == count + 2

Marked(count) == count + 1

\* meter.Mark(1)
MergeMark(i) ==
    /\ i \in DOMAIN mpc
    /\ mpc[i] = "mark"
    /\ meter' = Marked(meter)
    /\ mpc' = [mpc EXCEPT ![i] = "recv"]
    /\ UNCHANGED <<plan, produced, inq, inClosed, mev, merged, taken>>
    /\ UNCHANGED mergedClosed
    /\ UNCHANGED <<regVars, lifeVars, demuxVars, voteVars, planVars, actorVars, quorumVars>>

\* The operator function receives the next event of the merged channel.
OpTake ==
    /\ merged # <<>>
    /\ taken' = Append(taken, Head(merged))
    /\ merged' = Tail(merged)
    /\ UNCHANGED <<plan, produced, inq, inClosed, mpc, mev, meter>>
    /\ UNCHANGED mergedClosed
    /\ UNCHANGED <<regVars, lifeVars, demuxVars, voteVars, planVars, actorVars, quorumVars>>

MergeNext ==
    \/ \E i \in Inputs : InputProduce(i)
    \/ \E i \in Inputs : InputClose(i)
    \/ \E i \in Inputs : MergeRecv(i)
    \/ \E i \in Inputs : MergeSend(i)
    \/ \E i \in Inputs : MergeMark(i)
    \/ OpTake

(***************************************************************************)
(* The command log and the Voter that Grid.Start wires to it.  Every peer  *)
(* process builds its grid with the same npeers; its voter reads partition *)
(* 0 of the command topic from the newest offset and its output is written *)
(* back to that topic.  The voter follows section 4.4 of the design: a     *)
(* peer confirms the first proposal it observes for a term.  An entry a    *)
(* voter emits is appended to the log in the same step: the writer keeps   *)
(* each peer's entries in order, and a later append is the same log as a   *)
(* later read.  The leader's liveness entries are not kept in the log: a   *)
(* peer misses them exactly when its leader no longer runs.                *)
(***************************************************************************)
Peers == 1..MaxPeers

NoLeader == [id |-> 0, term |-> 0]

QuorumHalf(np) == np \div 2

QuorumAll(np) == np

\* g.quorum
Quorum(np) == (np \div 2) + 1

VoteIdle ==
    /\ npeers = 1
    /\ joined = {}
    /\ alive = {}
    /\ cmdlog = <<>>
    /\ offset = [p \in Peers |-> 1]
    /\ nprops = 0
    /\ term = [p \in Peers |-> 0]
    /\ role = [p \in Peers |-> "follower"]
    /\ votes = [p \in Peers |-> 0]
    /\ voted = [p \in Peers |-> 0]
    /\ leader = [p \in Peers |-> NoLeader]
    /\ wins = {}

VoteInit ==
    /\ npeers \in 1..MaxPeers
    /\ joined = {}
    /\ alive = {}
    /\ cmdlog = <<>>
    /\ offset = [p \in Peers |-> 1]
    /\ nprops = 0
    /\ term = [p \in Peers |-> 0]
    /\ role = [p \in Peers |-> "follower"]
    /\ votes = [p \in Peers |-> 0]
    /\ voted = [p \in Peers |-> 0]
    /\ leader = [p \in Peers |-> NoLeader]
    /\ wins = {}

Running(p) == p \in joined /\ p \in alive

\* The log and the offsets with the entries dropped that every running voter
\* has read: nobody reads them again, and a voter that starts later reads
\* from the newest offset.
Unread(lg, off, running) ==
    LET k == IF running = {} THEN Len(lg) ELSE Min({off[q] : q \in running}) - 1
    IN  [log |-> SubSeq(lg, k + 1, Len(lg)),
         offset |-> [q \in Peers |-> IF q \in running THEN off[q] - k ELSE 1]]

\* Grid.Start on peer p: the voter is built and reads the command topic
\* from the newest offset on.
Start(p) ==
    /\ p \in 1..npeers
    /\ p \notin joined
    /\ \A q \in 1..(p - 1) : q \in joined
    /\ joined' = joined \cup {p}
    /\ alive' = alive \cup {p}
    /\ offset' = [offset EXCEPT ![p] = Len(cmdlog) + 1]
    /\ UNCHANGED <<npeers, cmdlog, nprops, term, role, votes, voted, leader, wins>>
    /\ UNCHANGED <<regVars, lifeVars, demuxVars, mergeVars, planVars, actorVars, quorumVars>>

\* Peer p has seen no liveness entry of a leader within the window: it
\* proposes itself for a new term.
NewTerm(p) == Max({term[p], voted[p], leader[p].term}) + 1

Timeout(p) ==
    /\ Running(p)
    /\ role[p] # "leader"
    /\ leader[p].id \notin alive \/ role[p] = "candidate"
    /\ NewTerm(p) <= MaxTerm
    /\ nprops < MaxProposals
    /\ nprops' = nprops + 1
    /\ term' = [term EXCEPT ![p] = NewTerm(p)]
    /\ role' = [role EXCEPT ![p] = "candidate"]
    /\ votes' = [votes EXCEPT ![p] = 0]
    /\ cmdlog' = Append(cmdlog, [kind |-> "proposal", who |-> p, term |-> NewTerm(p)])
    /\ UNCHANGED <<npeers, joined, alive, offset, voted, leader, wins>>
    /\ UNCHANGED <<regVars, lifeVars, demuxVars, mergeVars, planVars, actorVars, quorumVars>>

\* The leader stops: it emits no more liveness entries and reads and writes
\* nothing more. A new election round begins.
LeaderStops(p) ==
    /\ Running(p)
    /\ role[p] = "leader"
    /\ alive = joined
    /\ alive' = alive \ {p}
    /\ nprops' = 0
    /\ LET r == Unread(cmdlog, offset, joined \cap alive') IN cmdlog' = r.log /\ offset' = r.offset
    /\ UNCHANGED <<npeers, joined, term, role, votes, voted, leader, wins>>
    /\ UNCHANGED <<regVars, lifeVars, demuxVars, mergeVars, planVars, actorVars, quorumVars>>

\* What a voter's step leaves of its state and the entries it emits.
Step(p, emit) ==
    [term |-> term[p], role |-> role[p], votes |-> votes[p], voted |-> voted[p],
     leader |-> leader[p], won |-> {}, emit |-> emit]

\* A proposal: peer p confirms it unless it confirmed one for that term or a
\* later one before.
OnProposal(p, e) ==
    IF e.term > voted[p]
    THEN [Step(p, <<[kind |-> "confirm", who |-> e.who, term |-> e.term]>>)
             EXCEPT !.voted = e.term]
    ELSE Step(p, <<>>)

\* A confirmation: a candidate counts those of its own proposal and, at a
\* quorum, becomes leader and announces it.
OnConfirm(p, e) ==
    IF e.who = p /\ role[p] = "candidate" /\ e.term = term[p]
    THEN IF votes[p] + 1 >= Quorum(npeers)
         THEN [Step(p, <<[kind |-> "leader", who |-> p, term |-> e.term]>>)
                  EXCEPT !.votes = votes[p] + 1,
                         !.role = "leader",
                         !.leader = [id |-> p, term |-> e.term],
                         !.won = {<<p, e.term>>}]
         ELSE [Step(p, <<>>) EXCEPT !.votes = votes[p] + 1]
    ELSE Step(p, <<>>)

\* A leadership announcement: adopted unless one of a higher term was adopted.
OnLeader(p, e) ==
    IF e.term >= leader[p].term /\ e.who # p
    THEN [Step(p, <<>>) EXCEPT !.leader = [id |-> e.who, term |-> e.term],
                               !.role = "follower"]
    ELSE Step(p, <<>>)

OnEntry(p, e) ==
    CASE e.kind = "proposal" -> OnProposal(p, e)
      [] e.kind = "confirm" -> OnConfirm(p, e)
      [] e.kind = "leader" -> OnLeader(p, e)

\* The voter of peer p reads the next entry of the command log and what it
\* emits is appended to the log.
Deliver(p) ==
    /\ Running(p)
    /\ offset[p] <= Len(cmdlog)
    /\ LET r == OnEntry(p, cmdlog[offset[p]])
           u == Unread(cmdlog \o r.emit, [offset EXCEPT ![p] = @ + 1], joined \cap alive)
       IN  /\ term' = [term EXCEPT ![p] = r.term]
           /\ role' = [role EXCEPT ![p] = r.role]
           /\ votes' = [votes EXCEPT ![p] = r.votes]
           /\ voted' = [voted EXCEPT ![p] = r.voted]
           /\ leader' = [leader EXCEPT ![p] = r.leader]
           /\ wins' = wins \cup r.won
           /\ cmdlog' = u.log
           /\ offset' = u.offset
    /\ UNCHANGED <<npeers, joined, alive, nprops>>
    /\ UNCHANGED <<regVars, lifeVars, demuxVars, mergeVars, planVars, actorVars, quorumVars>>

VoteNext ==
    \/ \E p \in Peers : Start(p)
    \/ \E p \in Peers : Timeout(p)
    \/ \E p \in Peers : LeaderStops(p)
    \/ \E p \in Peers : Deliver(p)

\* A registry as Add("x", 2, "f", "topicA") leaves it, topicA having 2 partitions.
RegOneOp ==
    /\ decoded = {CmdTopic, "topicA"}
    /\ encoded = {CmdTopic}
    /\ ops = Put(EmptyMap, "x", [n |-> 2, f |-> "f", inputs |-> {"topicA"}])
    /\ parts = Put(EmptyMap, "topicA", PartSeq(2))
    /\ call = [fname |-> "x", n |-> 2, f |-> "f", topics |-> <<"topicA">>,
               disc |-> <<[err |-> FALSE, n |-> 2]>>, err |-> "nil"]
    /\ nadds = 1

(***************************************************************************)
(* The Manager's planner.  It plans only on the leader: on a leadership    *)
(* change the new leader recomputes the full plan from the registry and    *)
(* emits it as a sequence of Instance entries; a newer entry for the same  *)
(* instance supersedes the earlier one.                                    *)
(***************************************************************************)
PlanIdle ==
    /\ mgrLeader = 0
    /\ mgrTerm = 0
    /\ pending = <<>>
    /\ assigned = EmptyMap

NameOrder == <<"x", "y">>

InstanceOfDiv(k, n) == k \div n

\* The instance id partition k goes to, of n instances.
InstanceOf(k, n) == k % n

TopicSlices(fname, id) ==
    [t \in ops[fname].inputs |->
        {k \in Range(parts[t]) : InstanceOf(k, ops[fname].n) = id}]

Slots ==
    [i \in 1..(Len(NameOrder) * MaxN) |->
        [Fname |-> NameOrder[((i - 1) \div MaxN) + 1], Id |-> (i - 1) % MaxN]]

\* The full plan: for every registered operator, in order, its instances 0..n-1.
Plan ==
    LET live == SelectSeq(Slots, LAMBDA sl : Registered(sl.Fname) /\ sl.Id < ops[sl.Fname].n)
    IN  [i \in 1..Len(live) |->
            [Fname |-> live[i].Fname, Id |-> live[i].Id,
             TopicSlices |-> TopicSlices(live[i].Fname, live[i].Id)]]

\* The co-located voter reports peer p as the new leader: its manager
\* recomputes the full plan; what the old leader had still to emit is gone.
LeaderChange(p) ==
    /\ mgrTerm < MaxChanges
    /\ p # mgrLeader
    /\ mgrLeader' = p
    /\ mgrTerm' = mgrTerm + 1
    /\ pending' = Plan
    /\ UNCHANGED assigned
    /\ UNCHANGED <<regVars, lifeVars, demuxVars, mergeVars, voteVars, actorVars, quorumVars>>

\* The leader's manager emits the next Instance entry of its plan.
EmitInstance ==
    /\ pending # <<>>
    /\ LET e == Head(pending)
       IN  assigned' = Put(assigned, <<e.Fname, e.Id>>,
                           [term |-> mgrTerm, TopicSlices |-> e.TopicSlices])
    /\ pending' = Tail(pending)
    /\ UNCHANGED <<mgrLeader, mgrTerm>>
    /\ UNCHANGED <<regVars, lifeVars, demuxVars, mergeVars, voteVars, actorVars, quorumVars>>

\* The registries the planner is run on: one or two operators, each with a
\* parallelism and a non-empty set of input topics, and a partition count for
\* every input topic (a topic can have more partitions than an operator's
\* parallelism: a later Add that fails on it has overwritten its entry).
PlanRegistry ==
    /\ \E S \in (SUBSET Names) \ {{}} :
         \E cfg \in [S -> [n : 1..MaxN, f : {"f"}, inputs : (SUBSET UserTopics) \ {{}}]] :
           /\ ops = cfg
           /\ \E pc \in [UNION {cfg[o].inputs : o \in S} -> 1..MaxParts] :
                parts = [t \in DOMAIN pc |-> PartSeq(pc[t])]
           /\ decoded = {CmdTopic} \cup UNION {cfg[o].inputs : o \in S}
    /\ encoded = {CmdTopic}
    /\ call = NoCall
    /\ nadds = 0

PlanNext ==
    \/ \E p \in Peers : LeaderChange(p)
    \/ EmitInstance

PlanSpecInit == PlanRegistry /\ LifeInit /\ DemuxIdle /\ MergeIdle /\ VoteIdle /\ PlanIdle /\ ActorIdle /\ QuorumIdle

PlanSpec == PlanSpecInit /\ [][PlanNext]_vars

(***************************************************************************)
(* The voters after an election: all npeers peers run, peer l won term 1   *)
(* and every peer has adopted its announcement; the log is read up.        *)
(***************************************************************************)
Elected(l) ==
    /\ joined = 1..npeers
    /\ alive = 1..npeers
    /\ cmdlog = <<>>
    /\ offset = [p \in Peers |-> 1]
    /\ nprops = 1
    /\ term = [p \in Peers |-> IF p = l THEN 1 ELSE 0]
    /\ role = [p \in Peers |-> IF p = l THEN "leader" ELSE "follower"]
    /\ votes = [p \in Peers |-> IF p = l THEN Quorum(npeers) ELSE 0]
    /\ voted = [p \in Peers |-> IF p \in 1..npeers THEN 1 ELSE 0]
    /\ leader = [p \in Peers |-> IF p \in 1..npeers THEN [id |-> l, term |-> 1] ELSE NoLeader]
    /\ wins = {<<l, 1>>}

LiveInit ==
    /\ npeers \in 2..MaxPeers
    /\ \E l \in 1..npeers : Elected(l)

LiveNext ==
    \/ \E p \in Peers : LeaderStops(p)
    \/ \E p \in Peers : Timeout(p)
    \/ \E p \in Peers : Deliver(p)

LiveSpecInit == RegOneOp /\ LifeInit /\ DemuxIdle /\ MergeIdle /\ LiveInit /\ PlanIdle /\ ActorIdle /\ QuorumIdle

\* Every running voter keeps reading the log, and a peer's leader timeout
\* fires when it stays due.
LiveFair ==
    /\ \A p \in Peers : WF_vars(Deliver(p))
    /\ \A p \in Peers : WF_vars(Timeout(p))

LiveSpec == LiveSpecInit /\ [][LiveNext]_vars /\ LiveFair

DemuxInit == RegOneOp /\ LifeInit /\ DemuxIdle /\ MergeIdle /\ VoteIdle /\ PlanIdle /\ ActorIdle /\ QuorumIdle

DemuxNext ==
    \/ \E t \in UserTopics : instpc = "idle" /\ AddEncoder(t)
    \/ \E fname \in Names, topics \in SUBSET UserTopics : \E order \in Orders(topics) :
          StartInst(fname, [t \in topics |-> {0}], order)
    \/ \E t \in AllTopics : SetupTopic(t)
    \/ SetupDone
    \/ \E t \in AllTopics : OpEmit(t)
    \/ OpClose
    \/ \E w \in AllTopics : WorkerRecv(w)
    \/ \E w \in AllTopics : WorkerSend(w)
    \/ \E t \in AllTopics : WriterTake(t)

DemuxSpec == DemuxInit /\ [][DemuxNext]_vars

\* startinst on its own, over the registries Add builds and every assignment
\* of one or two topics.
InstNext ==
    \E fname \in Names, topics \in SUBSET UserTopics :
        \E slices \in [topics -> (SUBSET (0..(MaxParts - 1))) \ {{}}], order \in Orders(topics) :
            StartInst(fname, slices, order)

InstSpecInit == PlanRegistry /\ LifeInit /\ DemuxIdle /\ MergeIdle /\ VoteIdle /\ PlanIdle /\ ActorIdle /\ QuorumIdle

InstSpec == InstSpecInit /\ [][InstNext]_vars

LifeSpecInit == RegInit /\ LifeInit /\ DemuxIdle /\ MergeIdle /\ VoteIdle /\ PlanIdle /\ ActorIdle /\ QuorumIdle

LifeSpec == LifeSpecInit /\ [][LifeNext]_vars

MergeSpecInit == RegOneOp /\ LifeInit /\ DemuxIdle /\ MergeInit /\ VoteIdle /\ PlanIdle /\ ActorIdle /\ QuorumIdle

VoteSpecInit == RegOneOp /\ LifeInit /\ DemuxIdle /\ MergeIdle /\ VoteInit /\ PlanIdle /\ ActorIdle /\ QuorumIdle

VoteSpec == VoteSpecInit /\ [][VoteNext]_vars

\* NewWithKafkaConfig(gridname, np, kconfig): the grid's npeers and quorum.
NewGrid(np) ==
    /\ npeers' = np
    /\ quorumA' = {}
    /\ quorumB' = {}
    /\ UNCHANGED <<joined, alive, cmdlog, offset, nprops, term, role, votes, voted, leader, wins>>
    /\ UNCHANGED <<regVars, lifeVars, demuxVars, mergeVars, planVars, actorVars>>

\* Two sets of g.quorum peers are drawn from the npeers peers.
DrawQuorums(A, B) ==
    /\ A \subseteq 1..npeers
    /\ B \subseteq 1..npeers
    /\ Cardinality(A) = Quorum(npeers)
    /\ Cardinality(B) = Quorum(npeers)
    /\ quorumA' = A
    /\ quorumB' = B
    /\ UNCHANGED <<regVars, lifeVars, demuxVars, mergeVars, voteVars, planVars, actorVars>>

QuorumNext ==
    \/ \E np \in 1..MaxGridPeers : NewGrid(np)
    \/ \E A \in SUBSET (1..MaxGridPeers), B \in SUBSET (1..MaxGridPeers) : DrawQuorums(A, B)

QuorumSpecInit == RegInit /\ LifeInit /\ DemuxIdle /\ MergeIdle /\ VoteIdle /\ PlanIdle /\ ActorIdle /\ QuorumIdle

QuorumSpec == QuorumSpecInit /\ [][QuorumNext]_vars

MergeSpec == MergeSpecInit /\ [][MergeNext]_vars

\* The inputs deliver what they produce, every runnable worker is scheduled
\* and the operator function keeps receiving from the merged channel.
MergeFair ==
    /\ \A i \in Inputs : WF_vars(InputProduce(i))
    /\ \A i \in Inputs : WF_vars(MergeRecv(i))
    /\ \A i \in Inputs : WF_vars(MergeSend(i))
    /\ \A i \in Inputs : WF_vars(MergeMark(i))
    /\ WF_vars(OpTake)

MergeFairSpec == MergeSpecInit /\ [][MergeNext]_vars /\ MergeFair

\* Stop() while the workers of merge run.
CancelNext ==
    \/ \E c \in Stoppers : StopClose(c)
    \/ \E c \in Stoppers : StopDone(c)
    \/ ~crashed /\ MergeNext

CancelSpecInit == RegOneOp /\ LifeInit /\ DemuxIdle /\ MergeInit /\ VoteIdle /\ PlanIdle /\ ActorIdle /\ QuorumIdle

\* The scheduler runs every worker that can take a step, the operator
\* function keeps consuming and a Stop() that has begun completes; nothing
\* makes the readers behind the inputs deliver or close.
CancelFair ==
    /\ \A i \in Inputs : WF_vars(MergeRecv(i)) /\ WF_vars(MergeSend(i)) /\ WF_vars(MergeMark(i))
    /\ WF_vars(OpTake)
    /\ \A c \in Stoppers : WF_vars(StopDone(c))

CancelSpec == CancelSpecInit /\ [][CancelNext]_vars /\ CancelFair

RegNext ==
    \/ \E t \in UserTopics : AddDecoder(t)
    \/ AddCall

RegSpecInit == RegInit /\ LifeInit /\ DemuxIdle /\ MergeIdle /\ VoteIdle /\ PlanIdle /\ ActorIdle /\ QuorumIdle

RegSpec == RegSpecInit /\ [][RegNext]_vars

ActorSpecInit == RegInit /\ LifeInit /\ DemuxIdle /\ MergeIdle /\ VoteIdle /\ PlanIdle /\ ActorIdle /\ QuorumIdle

ActorSpec == ActorSpecInit /\ [][ActorNext]_vars

\* Scheduling of the process-control calls: a caller that is inside Stop or
\* inside Wait and can take its next step is eventually scheduled.
LifeFair ==
    /\ \A c \in Stoppers : WF_vars(StopDone(c))
    /\ \A w \in Waiters : WF_vars(WaitReturn(w))

LifeFairSpec == LifeSpecInit /\ [][LifeNext]_vars /\ LifeFair

(***************************************************************************)
(* The claims.                                                             *)
(***************************************************************************)
\* The step is a call of Add.
IsAdd == nadds' = nadds + 1

\* What Add's caller is told to expect: the name is taken, or a listed topic
\* has no decoder, fails discovery or reports more partitions than n.
AddMustFail(c) ==
    \/ c.fname \in DOMAIN ops
    \/ \E i \in DOMAIN c.topics :
         \/ c.topics[i] \notin decoded
         \/ c.disc[i].err
         \/ c.disc[i].n > c.n

\* C1: Add returns an error exactly when the name is already registered or a
\* listed topic lacks a decoder, fails partition discovery or has more
\* partitions than n; otherwise the operator is registered under the name with
\* exactly the listed topics as inputs.
C1_AddErrorExactly ==
    [][IsAdd =>
         /\ (call'.err # "nil") <=> AddMustFail(call')
         /\ (call'.err = "nil") =>
              /\ call'.fname \in DOMAIN ops'
              /\ ops'[call'.fname] = [n |-> call'.n, f |-> call'.f,
                                      inputs |-> Range(call'.topics)]]_vars

\* Add("x", 2, f, "topicA") was refused because topicA reported 3 partitions.
C1_Witness ==
    /\ call.fname = "x"
    /\ call.n = 2
    /\ call.topics = <<"topicA">>
    /\ call.disc = <<[err |-> FALSE, n |-> 3]>>
    /\ call.err = "parallelism"

\* C2: a registered operator's parallelism, function and inputs never change,
\* and every later Add under a registered name fails.
C2_RegisteredOnce ==
    [][/\ \A name \in DOMAIN ops : name \in DOMAIN ops' /\ ops'[name] = ops[name]
       /\ (IsAdd /\ call'.fname \in DOMAIN ops) => call'.err # "nil"]_vars

\* A second Add under a registered name, with another parallelism, was refused.
C2_Witness ==
    /\ call.err = "exists"
    /\ call.fname \in DOMAIN ops
    /\ ops[call.fname].n # call.n

\* C3: an Add that returns an error leaves the operator registry and the
\* partition table as they were.
C3_FailedAddChangesNothing ==
    [][(IsAdd /\ call'.err # "nil") => (ops' = ops /\ parts' = parts)]_vars

\* The events a demultiplexing worker has received from out.
Received == {e \in 1..Len(emitted) : e \notin Range(outq)}

\* How often event e is on topic t's output channel.
Occurrences(e, t) == Cardinality({i \in DOMAIN Delivered(t) : Delivered(t)[i] = e})

\* A worker holds e, received and about to be sent.
InHand(e) == \E w \in DOMAIN wpc : wpc[w] = "send" /\ wev[w] = e

\* C4: every received event for a known output topic is on its way to, or
\* exactly once on, the output channel of its own topic and on no other.
C4_DemuxRouting ==
    \A e \in Received :
        emitted[e] \in encoded =>
            LET copies(t) == Occurrences(e, t)
            IN  /\ \A t \in AllTopics : t # emitted[e] => copies(t) = 0
                /\ IF InHand(e) THEN copies(emitted[e]) = 0 ELSE copies(emitted[e]) = 1

\* C5: with two or more known output topics, each topic's output channel
\* carries its events in the order the operator function produced them.
C5_DemuxOrder ==
    Cardinality(encoded) >= 2 =>
        \A t \in AllTopics :
            \A i, j \in DOMAIN Delivered(t) :
                i < j => Delivered(t)[i] < Delivered(t)[j]

\* The events the inputs of merge produce in all.
AllPlanned == UNION {{<<i, k>> : k \in 1..plan[i]} : i \in DOMAIN plan}

\* The merged stream has delivered every input event exactly once and the
\* meter has counted each.
MergeComplete ==
    /\ Len(taken) = Cardinality(AllPlanned)
    /\ Range(taken) = AllPlanned
    /\ meter = Cardinality(AllPlanned)

\* C6: the meter never exceeds the number of events placed on the merged
\* stream, and eventually the merged stream has delivered each of the K input
\* events exactly once and the meter equals K.
C6_MergeComplete ==
    /\ [](meter <= Len(taken) + Len(merged))
    /\ <>[]MergeComplete

\* Two inputs of two events each have been merged and counted.
C6_Witness ==
    /\ DOMAIN plan = 1..2
    /\ \A i \in DOMAIN plan : plan[i] = 2
    /\ MergeComplete
    /\ meter = 4

StopCalled == \E c \in Stoppers : stoppc[c] # "idle"

\* C7: no Wait returns before Stop was called, the shutdown signal stays
\* raised once raised, and once Stop was called every pending Wait returns.
C7_WaitUntilStop ==
    /\ []((\E w \in Waiters : waitpc[w] = "returned") => StopCalled)
    /\ [](exitClosed => []exitClosed)
    /\ \A w \in Waiters : (StopCalled /\ waitpc[w] = "waiting") ~> (waitpc[w] = "returned")

C9_ElectedReachable == npeers = 3 /\ Elected(2)

Stopped == joined \ alive # {}

\* The term the stopped leader held.
StoppedTerm == IF Stopped THEN Max({leader[s].term : s \in joined \ alive}) ELSE MaxTerm + 1

MajorityRemains == 2 * Cardinality(alive) > npeers

ReProposed(q) == Stopped /\ term[q] > StoppedTerm

AdoptedNew(q) == Stopped /\ leader[q].term > StoppedTerm

NewLeader == Stopped /\ \E w \in wins : w[1] \in alive /\ w[2] > StoppedTerm

Holders(fname, t, k) ==
    {key \in DOMAIN assigned :
        /\ key[1] = fname
        /\ assigned[key].term = mgrTerm
        /\ t \in DOMAIN assigned[key].TopicSlices
        /\ k \in assigned[key].TopicSlices[t]}

PlanComplete == mgrTerm > 0 /\ pending = <<>>

(***************************************************************************)
(* C10: assignment completeness and disjointness.  For every registered    *)
(* operator with parallelism n, the emitted plan assigns every partition   *)
(* of each input topic to exactly one instance id in [0, n): none is       *)
(* unassigned, none is assigned twice, also in the plan re-emitted after a *)
(* leadership change.                                                      *)
(***************************************************************************)
C10_AssignmentComplete ==
    /\ \A key \in DOMAIN assigned :
          /\ Registered(key[1])
          /\ key[2] \in 0..(ops[key[1]].n - 1)
          /\ DOMAIN assigned[key].TopicSlices = ops[key[1]].inputs
          /\ \A t \in ops[key[1]].inputs :
                assigned[key].TopicSlices[t] \subseteq Range(parts[t])
    /\ \A fname \in DOMAIN ops : \A t \in ops[fname].inputs : \A k \in Range(parts[t]) :
          /\ Cardinality(Holders(fname, t, k)) <= 1
          /\ PlanComplete => Cardinality(Holders(fname, t, k)) = 1

\* The plan re-emitted after a second leadership change is complete, for an
\* operator of two instances and a topic of three partitions.
C10_Witness ==
    /\ PlanComplete
    /\ mgrTerm = 2
    /\ \E fname \in DOMAIN ops : \E t \in ops[fname].inputs :
          ops[fname].n = 2 /\ Len(parts[t]) = 3

\* What a caller of ValidateActorDef is told to expect of def d.
FirstInvalid(d) ==
    CASE ~IsNameValid(d.Type) -> "ErrInvalidActorType"
      [] IsNameValid(d.Type) /\ ~IsNameValid(d.Name) -> "ErrInvalidActorName"
      [] IsNameValid(d.Type) /\ IsNameValid(d.Name) /\ ~IsNameValid(d.namespace)
            -> "ErrInvalidActorNamespace"
      [] OTHER -> "nil"

\* A step that is a call of ValidateActorDef.
IsValidate == verr' # "none" /\ ncalls' = ncalls

(***************************************************************************)
(* C11: ValidateActorDef reports the first invalid field in the order      *)
(* Type, Name, namespace, returns nil exactly when all three are valid,    *)
(* and leaves the ActorDef as it was.                                      *)
(***************************************************************************)
C11_ValidateOrder ==
    [][IsValidate =>
          /\ verr' = FirstInvalid(def)
          /\ (verr' = "nil") <=>
                (IsNameValid(def.Type) /\ IsNameValid(def.Name) /\ IsNameValid(def.namespace))
          /\ def' = def]_vars

\* NewActorDef("a") was validated as it came, its namespace still empty.
C11_Witness ==
    /\ def = [id |-> <<>>, Type |-> <<"a">>, Name |-> <<"a">>, namespace |-> <<>>]
    /\ verr = "ErrInvalidActorNamespace"

C13_RegistryInvariant ==
    \A fname \in DOMAIN ops : \A t \in ops[fname].inputs :
        t \in DOMAIN parts => Len(parts[t]) <= ops[fname].n

(***************************************************************************)
(* C14: the demultiplexer is fatal if and only if the operator emitted an  *)
(* event for a topic that is not an encoded topic: an event for an encoded *)
(* topic is never fatal, whichever worker receives it and however early.   *)
(***************************************************************************)
C14_FatalIffUnknownTopic ==
    /\ (instpc # "idle" /\ fatal) => \E e \in Received : emitted[e] \notin encoded
    /\ \A e \in Received : emitted[e] \notin encoded => fatal

(***************************************************************************)
(* C15: startinst validates the assignment first.  With an unregistered    *)
(* operator, or a topic that is not an input of the operator, it ends      *)
(* fatal and the operator function is not invoked; otherwise it opens      *)
(* exactly one reader per assigned topic, with that topic's partitions,    *)
(* and invokes the operator function exactly once.                         *)
(***************************************************************************)
C15_StartInstValidates ==
    [][(instpc = "idle" /\ ~fatal /\ (instpc' # instpc \/ fatal' # fatal)) =>
          LET i == inst'
              valid == /\ i.Fname \in DOMAIN ops
                       /\ \A t \in DOMAIN i.TopicSlices : t \in ops[i.Fname].inputs
          IN  IF valid
              THEN /\ ~fatal'
                   /\ invoked' = invoked + 1
                   /\ Len(ins') = Cardinality(DOMAIN i.TopicSlices)
                   /\ Range(ins') = {<<t, i.TopicSlices[t]>> : t \in DOMAIN i.TopicSlices}
              ELSE /\ fatal'
                   /\ invoked' = invoked]_vars

\* An assignment of two topics was started: two readers, one call.
C15_Witness ==
    /\ instpc = "setup"
    /\ invoked = 1
    /\ Len(ins) = 2
    /\ \E r \in Range(ins) : Cardinality(r[2]) = 2

\* The merged stream so far, in the order of the channel.
MergedStream == taken \o merged

(***************************************************************************)
(* C16: merge preserves each input's order.  Two events of the same input  *)
(* are on the merged stream in the order in which that input delivered     *)
(* them, under every interleaving of the merge workers.                    *)
(***************************************************************************)
C16_MergeInputOrder ==
    \A a \in DOMAIN MergedStream, b \in DOMAIN MergedStream :
        (a < b /\ MergedStream[a][1] = MergedStream[b][1])
            => MergedStream[a][2] < MergedStream[b][2]

\* Two inputs of two events each were merged, the inputs interleaved.
C16_Witness ==
    /\ Len(taken) = 4
    /\ taken[1][1] # taken[2][1]
    /\ taken[2][1] # taken[3][1]

\* The events worker i has taken from its input.
TakenFrom(i) == {<<i, k>> : k \in 1..(produced[i] - Len(inq[i]))}

\* The events taken from the inputs that the operator has not consumed.
InFlight == (UNION {TakenFrom(i) : i \in DOMAIN plan}) \ Range(taken)

C18_WorkersExitOnStop ==
    exitClosed ~> (crashed \/ (/\ \A i \in DOMAIN mpc : mpc[i] = "done"
                               /\ \A w \in DOMAIN wpc : wpc[w] = "done"))

(***************************************************************************)
(* C20: merge never closes the merged stream.  It stays open in every      *)
(* state, also when every input is closed and drained and after Stop().    *)
(***************************************************************************)
C20_MergedNeverClosed == ~mergedClosed

\* Every input is closed and drained, every worker has ended and Stop() has
\* run: the merged channel is still open.
C20_Witness ==
    /\ DOMAIN plan = 1..2
    /\ \A i \in DOMAIN plan : inClosed[i] /\ inq[i] = <<>> /\ mpc[i] = "done" /\ plan[i] > 0
    /\ merged = <<>>
    /\ exitClosed
    /\ wg = 0
    /\ ~mergedClosed

(***************************************************************************)
(* C19: quorum arithmetic.  For every npeers >= 1 the quorum is            *)
(* floor(npeers/2) + 1, so 1 <= quorum <= npeers and 2 * quorum > npeers,  *)
(* and any two sets of quorum peers out of npeers share a peer.            *)
(***************************************************************************)
C19_QuorumArithmetic ==
    LET q == Quorum(npeers)
    IN  /\ 2 * (q - 1) <= npeers
        /\ npeers < 2 * q
        /\ 1 <= q
        /\ q <= npeers
        /\ quorumA # {} => quorumA \cap quorumB # {}

\* Two different quorums of five peers that share exactly one peer.
C19_Witness ==
    /\ npeers = 5
    /\ Cardinality(quorumA) = 3
    /\ quorumA # quorumB
    /\ Cardinality(quorumA \cap quorumB) = 1

====
